---- MODULE Spec2Model ----
(***************************************************************************)
(* Three-address code of wgtcc (src/tac.h): the operand family             *)
(* {Variable, Constant, Temporary}, the Temporary id generator, the TAC    *)
(* instruction record with its three private constructors over one union   *)
(* field, and the named factories.                                         *)
(*                                                                         *)
(* Objects live on the heap and are referred to by pointer; a pointer is   *)
(* modelled as the 1-based index of the object in its allocation sequence  *)
(* (operands, tacs), nullptr as NULL.  tac.h only declares the factories   *)
(* whose bodies are out of line; those bodies are modelled from the        *)
(* documented contract and are marked so where they are defined.           *)
(***************************************************************************)
EXTENDS Integers, Sequences, FiniteSets

VARIABLES
  operands,  \* heap of Operand objects, in allocation order
  olog,      \* ghost: olog[i] is the factory call that allocated operands[i]
  id,        \* the function-local static `id` of Temporary::GenId
  zero,      \* cached instance behind Constant::Zero(), NULL before first use
  one,       \* cached instance behind Constant::One(), NULL before first use
  olast,     \* ghost: the most recent operand-level call and what it returned
  firstZero, \* ghost: what the first call of Constant::Zero() returned
  firstOne,  \* ghost: what the first call of Constant::One() returned
  tacs,      \* heap of TAC objects, in allocation order
  tlog,      \* ghost: tlog[i] is the factory call that allocated tacs[i]
  last,      \* ghost: the most recent TAC factory call and its outcome
  thr,       \* per thread: position inside Temporary::New and its locals
  raced      \* ghost: a GenId started while another was between load and return

vars == <<operands, olog, id, zero, one, olast, firstZero, firstOne,
          tacs, tlog, last, thr, raced>>

-----------------------------------------------------------------------------
(* Bounds of the model *)

MaxOperands == 3
MaxTacs == 3
NumThreads == 2

NULL == 0

-----------------------------------------------------------------------------
(* enum class OperandType *)

OperandType == {"SIGNED", "UNSIGNED", "FLOAT", "AGGREGATE"}

(* The external Type descriptor: its kind, its signedness and its width.   *)
TInt    == [cls |-> "integer",  sign |-> TRUE,  width |-> 4]
TUInt   == [cls |-> "integer",  sign |-> FALSE, width |-> 4]
TDouble == [cls |-> "floating", sign |-> TRUE,  width |-> 8]
TPtr    == [cls |-> "pointer",  sign |-> FALSE, width |-> 8]
TStruct == [cls |-> "struct",   sign |-> FALSE, width |-> 16]
TUnion  == [cls |-> "union",    sign |-> FALSE, width |-> 8]
TArray  == [cls |-> "array",    sign |-> FALSE, width |-> 12]
TFunc   == [cls |-> "function", sign |-> FALSE, width |-> 1]

SourceTypes == {TInt, TUInt, TDouble, TPtr, TStruct, TUnion, TArray, TFunc}

(* OperandType ToTACOperandType(const Type* type): declared in tac.h,      *)
(* defined out of line; modelled from the documented policy.               *)
ToTACOperandType_ptrSigned(type) ==
  IF type.cls = "floating" THEN "FLOAT"
  ELSE IF type.cls = "integer" THEN (IF type.sign THEN "SIGNED" ELSE "UNSIGNED")
  ELSE IF type.cls = "pointer" THEN "SIGNED"
  ELSE "AGGREGATE"

ToTACOperandType(type) ==
  IF type.cls = "floating" THEN "FLOAT"
  ELSE IF type.cls = "integer" THEN (IF type.sign THEN "SIGNED" ELSE "UNSIGNED")
  ELSE IF type.cls = "pointer" THEN "UNSIGNED"
  ELSE "AGGREGATE"

-----------------------------------------------------------------------------
(* class Operand and its three subclasses.  An object is a record of its   *)
(* dynamic class and its data members; members a class does not have are   *)
(* carried as NULL / "".                                                    *)

Operand(kind, width, type) ==
  [kind |-> kind, width_ |-> width, type_ |-> type,
   name_ |-> "", offset_ |-> 0, val_ |-> 0, id_ |-> 0]

IsInteger(o)   == o.type_ = "SIGNED" \/ o.type_ = "UNSIGNED"
IsUnsigned(o)  == o.type_ = "UNSIGNED"
IsSigned(o)    == o.type_ = "SIGNED"
IsFloat(o)     == o.type_ = "FLOAT"
IsAggregate(o) == o.type_ = "AGGREGATE"
width(o)       == o.width_
type(o)        == o.type_

(* Variable(width, type, name): offset_ has no initializer, so the member   *)
(* holds whatever the allocation held (junk).                               *)
VariableByName(w, t, name, junk) ==
  [Operand("Variable", w, t) EXCEPT !.name_ = name, !.offset_ = junk]

(* Variable(width, type, offset): name_ is default-constructed, empty.      *)
VariableByOffset(w, t, offset) ==
  [Operand("Variable", w, t) EXCEPT !.offset_ = offset]

offset(o) == o.offset_

Constant_valDropped(w, t, v) == Operand("Constant", w, t)

Constant(w, t, v) == [Operand("Constant", w, t) EXCEPT !.val_ = v]

val(o) == o.val_

(* static size_t GenId() { static size_t id = 0; return ++id; }             *)
(* ++id is a load of id, an add and a store.  The value returned is the     *)
(* incremented value: kept in a register, or read back from id after the    *)
(* store (the unoptimised build does the latter).  With one thread the two  *)
(* agree.                                                                    *)
(* size_t is 64 bits wide: the bounded runs stay far below the wrap.        *)
GenIdLoad(cur) == cur

GenIdStore_noInc(loaded) == loaded

GenIdStore(loaded) == loaded + 1

GenIdValue_postInc(loaded) == loaded

GenIdValue(loaded) == loaded + 1

Temporary(w, t, genid) == [Operand("Temporary", w, t) EXCEPT !.id_ = genid]

IsConstant(p) == p # NULL /\ operands[p].kind = "Constant"

-----------------------------------------------------------------------------
(* Inputs of the operand factories *)

(* const Object*: a declared type and either a symbolic name or an offset   *)
Objects ==
  { [type |-> TInt,    sym |-> TRUE,  name |-> "g", offset |-> 0],
    [type |-> TStruct, sym |-> FALSE, name |-> "",  offset |-> -16] }

(* const ASTConstant*: a declared type and the bits of the literal          *)
Literals ==
  { [type |-> TInt,    val |-> 7],
    [type |-> TDouble, val |-> 0] }

JunkOffsets == {0, -1}

(* Zero()/One() do not take a type: the instance is some integer constant.  *)
CanonTypes == {TInt, TUInt}

OCall(fn, arg, ret) ==
  [fn |-> fn, arg |-> arg, ret |-> ret, cls |-> ToTACOperandType(arg)]

NoCall == OCall("", TInt, NULL)

CanAllocOperand == Len(operands) < MaxOperands

-----------------------------------------------------------------------------
(* Operand factories *)

(* Variable::New(obj): declared in tac.h, defined out of line.              *)
VariableNew(obj) ==
  IF obj.sym
    THEN {VariableByName(obj.type.width, ToTACOperandType(obj.type), obj.name, j) :
            j \in JunkOffsets}
    ELSE {VariableByOffset(obj.type.width, ToTACOperandType(obj.type), obj.offset)}

Variable_New ==
  \E obj \in Objects : \E v \in VariableNew(obj) :
    /\ CanAllocOperand
    /\ operands' = Append(operands, v)
    /\ olog' = Append(olog, OCall("Variable::New", obj.type, Len(operands) + 1))
    /\ olast' = OCall("Variable::New", obj.type, Len(operands) + 1)
    /\ UNCHANGED <<id, zero, one, firstZero, firstOne, tacs, tlog, last, thr, raced>>

(* Constant::New(c): declared in tac.h, defined out of line.                *)
ConstantNew(c) == Constant(c.type.width, ToTACOperandType(c.type), c.val)

Constant_New ==
  \E c \in Literals :
    /\ CanAllocOperand
    /\ operands' = Append(operands, ConstantNew(c))
    /\ olog' = Append(olog, OCall("Constant::New", c.type, Len(operands) + 1))
    /\ olast' = OCall("Constant::New", c.type, Len(operands) + 1)
    /\ UNCHANGED <<id, zero, one, firstZero, firstOne, tacs, tlog, last, thr, raced>>

(* Constant::Zero(): declared in tac.h, defined out of line; the instance   *)
(* is built on first use and handed out again on every later call.          *)
Constant_Zero ==
  IF zero = NULL
    THEN \E t \in CanonTypes :
      /\ CanAllocOperand
      /\ operands' = Append(operands, Constant(t.width, ToTACOperandType(t), 0))
      /\ olog' = Append(olog, OCall("Constant::Zero", t, Len(operands) + 1))
      /\ zero' = Len(operands) + 1
      /\ olast' = OCall("Constant::Zero", t, Len(operands) + 1)
      /\ firstZero' = IF firstZero = NULL THEN Len(operands) + 1 ELSE firstZero
      /\ UNCHANGED <<id, one, firstOne, tacs, tlog, last, thr, raced>>
    ELSE
      /\ olast' = OCall("Constant::Zero", TInt, zero)
      /\ firstZero' = IF firstZero = NULL THEN zero ELSE firstZero
      /\ UNCHANGED <<operands, olog, id, zero, one, firstOne, tacs, tlog, last,
                     thr, raced>>

(* Constant::One(): as Zero(), with the value 1.                            *)
Constant_One ==
  IF one = NULL
    THEN \E t \in CanonTypes :
      /\ CanAllocOperand
      /\ operands' = Append(operands, Constant(t.width, ToTACOperandType(t), 1))
      /\ olog' = Append(olog, OCall("Constant::One", t, Len(operands) + 1))
      /\ one' = Len(operands) + 1
      /\ olast' = OCall("Constant::One", t, Len(operands) + 1)
      /\ firstOne' = IF firstOne = NULL THEN Len(operands) + 1 ELSE firstOne
      /\ UNCHANGED <<id, zero, firstZero, tacs, tlog, last, thr, raced>>
    ELSE
      /\ olast' = OCall("Constant::One", TInt, one)
      /\ firstOne' = IF firstOne = NULL THEN one ELSE firstOne
      /\ UNCHANGED <<operands, olog, id, zero, one, firstZero, tacs, tlog, last,
                     thr, raced>>

(* Temporary::New(type): declared in tac.h, defined out of line; it builds  *)
(* one Temporary, whose constructor draws its id_ from GenId().             *)
Temporary_New ==
  \E t \in SourceTypes :
    /\ CanAllocOperand
    /\ id' = GenIdStore(GenIdLoad(id))
    /\ operands' = Append(operands,
                     Temporary(t.width, ToTACOperandType(t), GenIdValue(GenIdLoad(id))))
    /\ olog' = Append(olog, OCall("Temporary::New", t, Len(operands) + 1))
    /\ olast' = OCall("Temporary::New", t, Len(operands) + 1)
    /\ UNCHANGED <<zero, one, firstZero, firstOne, tacs, tlog, last, thr, raced>>

(* A direct call of ToTACOperandType(type); olast.cls is what it returned.  *)
Classify ==
  \E t \in SourceTypes :
    /\ olast' = OCall("ToTACOperandType", t, NULL)
    /\ UNCHANGED <<operands, olog, id, zero, one, firstZero, firstOne,
                   tacs, tlog, last, thr, raced>>

-----------------------------------------------------------------------------
(* enum class Operator *)

BinaryOps == {"ADD", "SUB", "MUL", "DIV", "LESS", "GREATER", "EQ", "NE", "LE",
              "GE", "L_SHIFT", "R_SHIFT", "OR", "AND", "XOR"}
AssignOps == {"ASSIGN", "DES_SS_ASSIGN", "SRC_SS_ASSIGN", "DEREF_ASSIGN"}
UnaryOps  == {"PRE_INC", "POST_INC", "PRE_DEC", "POST_DEC", "PLUS", "MINUS",
              "ADDR", "DEREF", "COMPT", "NOT", "CAST"}
CallOps   == {"PARAM", "CALL"}
JumpOps   == {"JUMP", "IF", "IF_FALSE"}
Operator  == BinaryOps \cup AssignOps \cup UnaryOps \cup CallOps \cup JumpOps
               \cup {"LABEL"}

-----------------------------------------------------------------------------
(* class TAC: op_, des_, lhs_ and the anonymous union {rhs_, n_, jump_des_}. *)
(* The union is one storage cell; `arm` is the member the constructor wrote  *)
(* and `u` the value written.                                                *)

(* TAC(Operator op, Operand* des, Operand* lhs, Operand* rhs)                *)
TAC_rhs(op, des, lhs, rhs) ==
  [op_ |-> op, des_ |-> des, lhs_ |-> lhs, arm |-> "rhs_", u |-> rhs]

TAC_n_asRhs(op, des, lhs, n) ==
  [op_ |-> op, des_ |-> des, lhs_ |-> lhs, arm |-> "rhs_", u |-> n]

(* TAC(Operator op, Operand* des, Operand* lhs, ssize_t n)                   *)
TAC_n(op, des, lhs, n) ==
  [op_ |-> op, des_ |-> des, lhs_ |-> lhs, arm |-> "n_", u |-> n]

TAC_jump_desIsLhs(op, lhs, jump_des) ==
  [op_ |-> op, des_ |-> lhs, lhs_ |-> NULL, arm |-> "jump_des_", u |-> jump_des]

TAC_jump_noTarget(op, lhs, jump_des) ==
  [op_ |-> op, des_ |-> NULL, lhs_ |-> lhs, arm |-> "jump_des_", u |-> NULL]

(* TAC(Operator op, Operand* lhs, TAC* jump_des): des_ is set to nullptr     *)
TAC_jump(op, lhs, jump_des) ==
  [op_ |-> op, des_ |-> NULL, lhs_ |-> lhs, arm |-> "jump_des_", u |-> jump_des]

(* The outcome of a call that dies on a construction-time assertion          *)
Fatal == [op_ |-> "<fatal>", des_ |-> NULL, lhs_ |-> NULL, arm |-> "rhs_", u |-> NULL]

-----------------------------------------------------------------------------
(* TAC factories.  NewDerefAssign and NewLabel are defined in tac.h; the     *)
(* others are declared there and defined out of line, and are modelled from  *)
(* the documented shape discipline: each accepts its own operator family,    *)
(* an assignment never targets a Constant, a jump needs an existing target.  *)

NewBinary(op, des, lhs, rhs) ==
  IF op \in BinaryOps \cup {"LABEL"} THEN TAC_rhs(op, des, lhs, rhs) ELSE Fatal

NewUnary(op, des, operand) ==
  IF op \notin UnaryOps \cup {"DEREF_ASSIGN"} THEN Fatal
  ELSE IF op \in AssignOps /\ IsConstant(des) THEN Fatal
  ELSE TAC_rhs(op, des, operand, NULL)

NewAssign(des, src) ==
  IF IsConstant(des) THEN Fatal ELSE TAC_rhs("ASSIGN", des, src, NULL)

NewDesSSAssign(des, src, n) ==
  IF IsConstant(des) THEN Fatal ELSE TAC_n("DES_SS_ASSIGN", des, src, n)

NewSrcSSAssign(des, src, n) ==
  IF IsConstant(des) THEN Fatal ELSE TAC_n("SRC_SS_ASSIGN", des, src, n)

NewDerefAssign_direct(des, src) == TAC_rhs("DEREF_ASSIGN", des, src, NULL)

NewDerefAssign(des, src) == NewUnary("DEREF_ASSIGN", des, src)

NewJump(des) ==
  IF des = NULL THEN Fatal ELSE TAC_jump("JUMP", NULL, des)

NewIf(cond, des) ==
  IF des = NULL THEN Fatal ELSE TAC_jump("IF", cond, des)

NewIfFalse(cond, des) ==
  IF des = NULL THEN Fatal ELSE TAC_jump("IF_FALSE", cond, des)

NewLabel_wrongOp == TAC_rhs("JUMP", NULL, NULL, NULL)

NewLabel == NewBinary("LABEL", NULL, NULL, NULL)

-----------------------------------------------------------------------------
(* Inputs of the TAC factories: pointers into the operand pool of Init       *)

Pool ==
  << VariableByOffset(TInt.width, ToTACOperandType(TInt), -8),
     ConstantNew([type |-> TInt, val |-> 7]),
     Temporary(TInt.width, ToTACOperandType(TInt), GenIdValue(GenIdLoad(0))) >>

PoolLog ==
  << OCall("Variable::New", TInt, 1), OCall("Constant::New", TInt, 2),
     OCall("Temporary::New", TInt, 3) >>

PtrTo(kind) == CHOOSE p \in DOMAIN Pool : Pool[p].kind = kind

VarX == PtrTo("Variable")
ConC == PtrTo("Constant")
TmpT == PtrTo("Temporary")

DesArgs == {VarX, ConC}
LhsArgs == {TmpT}
RhsArgs == {ConC, TmpT}
Offsets == {8, -4}
BinaryArgOps == {"ADD", "JUMP"}
UnaryArgOps  == {"MINUS", "DEREF_ASSIGN", "DES_SS_ASSIGN"}
Targets == {NULL} \cup DOMAIN tacs

TCall(fn, op, des, lhs, arg) ==
  [fn |-> fn, op |-> op, des |-> des, lhs |-> lhs, arg |-> arg]

NoTCall == TCall("", "", NULL, NULL, NULL)

(* One factory call c with outcome r: the node is allocated, or the process  *)
(* dies on the assertion and nothing is allocated.                           *)
Emit(c, r) ==
  /\ last.ok
  /\ Len(tacs) < MaxTacs
  /\ IF r = Fatal
       THEN /\ last' = [call |-> c, ok |-> FALSE, ret |-> NULL]
            /\ UNCHANGED <<tacs, tlog>>
       ELSE /\ tacs' = Append(tacs, r)
            /\ tlog' = Append(tlog, c)
            /\ last' = [call |-> c, ok |-> TRUE, ret |-> Len(tacs) + 1]
  /\ UNCHANGED <<operands, olog, id, zero, one, olast, firstZero, firstOne,
                 thr, raced>>

TAC_NewBinary ==
  \E op \in BinaryArgOps, des \in DesArgs, lhs \in LhsArgs, rhs \in RhsArgs :
    Emit(TCall("NewBinary", op, des, lhs, rhs), NewBinary(op, des, lhs, rhs))

TAC_NewUnary ==
  \E op \in UnaryArgOps, des \in DesArgs, operand \in LhsArgs :
    Emit(TCall("NewUnary", op, des, operand, NULL), NewUnary(op, des, operand))

TAC_NewAssign ==
  \E des \in DesArgs, src \in LhsArgs :
    Emit(TCall("NewAssign", "", des, src, NULL), NewAssign(des, src))

TAC_NewDesSSAssign ==
  \E des \in DesArgs, src \in LhsArgs, n \in Offsets :
    Emit(TCall("NewDesSSAssign", "", des, src, n), NewDesSSAssign(des, src, n))

TAC_NewSrcSSAssign ==
  \E des \in DesArgs, src \in LhsArgs, n \in Offsets :
    Emit(TCall("NewSrcSSAssign", "", des, src, n), NewSrcSSAssign(des, src, n))

TAC_NewDerefAssign ==
  \E des \in DesArgs, src \in LhsArgs :
    Emit(TCall("NewDerefAssign", "", des, src, NULL), NewDerefAssign(des, src))

TAC_NewJump ==
  \E des \in Targets :
    Emit(TCall("NewJump", "", NULL, NULL, des), NewJump(des))

TAC_NewIf ==
  \E cond \in LhsArgs, des \in Targets :
    Emit(TCall("NewIf", "", NULL, cond, des), NewIf(cond, des))

TAC_NewIfFalse ==
  \E cond \in LhsArgs, des \in Targets :
    Emit(TCall("NewIfFalse", "", NULL, cond, des), NewIfFalse(cond, des))

TAC_NewLabel ==
  Emit(TCall("NewLabel", "", NULL, NULL, NULL), NewLabel)

-----------------------------------------------------------------------------
(* Temporary::New called from several threads.  `static size_t id` is a      *)
(* plain object and ++id is not atomic: a thread loads id, stores the        *)
(* incremented value in a later step, and in a third step takes the value    *)
(* GenId returns, which is the value it computed or a fresh read of id,      *)
(* depending on the build.  The race makes every such outcome possible.      *)

Threads == 1..NumThreads

Idle == [pc |-> "idle", type |-> TInt, loaded |-> 0]

InFlight == Cardinality({t \in Threads : thr[t].pc # "idle"})

(* The thread is between its load of id and its return from GenId            *)
InGenId(t) == thr[t].pc \in {"store", "ret"}

T_Begin(t) ==
  /\ thr[t].pc = "idle"
  /\ Len(operands) + InFlight < MaxOperands
  /\ \E ty \in {TInt, TDouble} :
       thr' = [thr EXCEPT ![t] = [pc |-> "load", type |-> ty, loaded |-> 0]]
  /\ UNCHANGED <<operands, olog, id, zero, one, olast, firstZero, firstOne,
                 tacs, tlog, last, raced>>

T_Load(t) ==
  /\ thr[t].pc = "load"
  /\ thr' = [thr EXCEPT ![t].pc = "store", ![t].loaded = GenIdLoad(id)]
  /\ raced' = (raced \/ \E o \in Threads \ {t} : InGenId(o))
  /\ UNCHANGED <<operands, olog, id, zero, one, olast, firstZero, firstOne,
                 tacs, tlog, last>>

T_Store(t) ==
  /\ thr[t].pc = "store"
  /\ id' = GenIdStore(thr[t].loaded)
  /\ thr' = [thr EXCEPT ![t].pc = "ret"]
  /\ UNCHANGED <<operands, olog, zero, one, olast, firstZero, firstOne,
                 tacs, tlog, last, raced>>

(* The values `return ++id` can yield once the store is done                 *)
GenIdReturned(loaded, cur) == {GenIdValue(loaded), GenIdLoad(cur)}

T_Return(t) ==
  /\ thr[t].pc = "ret"
  /\ \E v \in GenIdReturned(thr[t].loaded, id) :
       operands' = Append(operands,
         Temporary(thr[t].type.width, ToTACOperandType(thr[t].type), v))
  /\ olog' = Append(olog, OCall("Temporary::New", thr[t].type, Len(operands) + 1))
  /\ olast' = OCall("Temporary::New", thr[t].type, Len(operands) + 1)
  /\ thr' = [thr EXCEPT ![t] = Idle]
  /\ UNCHANGED <<id, zero, one, firstZero, firstOne, tacs, tlog, last, raced>>

-----------------------------------------------------------------------------
(* Specifications *)

NoLast == [call |-> NoTCall, ok |-> TRUE, ret |-> NULL]

(* Process start: nothing allocated, the static counter at its initializer. *)
InitOperands ==
  /\ operands = <<>> /\ olog = <<>> /\ id = 0
  /\ zero = NULL /\ one = NULL /\ firstZero = NULL /\ firstOne = NULL
  /\ olast = NoCall
  /\ tacs = <<>> /\ tlog = <<>> /\ last = NoLast
  /\ thr = [t \in Threads |-> Idle] /\ raced = FALSE

NextOperands ==
  \/ Variable_New
  \/ Constant_New
  \/ Constant_Zero
  \/ Constant_One
  \/ Temporary_New
  \/ Classify

SpecOperands == InitOperands /\ [][NextOperands]_vars

(* The factories called in any order over a pool of one Variable, one        *)
(* Constant and one Temporary, as built by the operand factories.            *)
Init ==
  /\ operands = Pool /\ olog = PoolLog
  /\ id = GenIdStore(GenIdLoad(0))
  /\ zero = NULL /\ one = NULL /\ firstZero = NULL /\ firstOne = NULL
  /\ olast = PoolLog[Len(PoolLog)]
  /\ tacs = <<>> /\ tlog = <<>> /\ last = NoLast
  /\ thr = [t \in Threads |-> Idle] /\ raced = FALSE

Next ==
  \/ TAC_NewBinary
  \/ TAC_NewUnary
  \/ TAC_NewAssign
  \/ TAC_NewDesSSAssign
  \/ TAC_NewSrcSSAssign
  \/ TAC_NewDerefAssign
  \/ TAC_NewJump
  \/ TAC_NewIf
  \/ TAC_NewIfFalse
  \/ TAC_NewLabel

Spec == Init /\ [][Next]_vars

NextThreads ==
  \E t \in Threads : T_Begin(t) \/ T_Load(t) \/ T_Store(t) \/ T_Return(t)

SpecThreads == InitOperands /\ [][NextThreads]_vars

-----------------------------------------------------------------------------
(* Properties *)

IsTemporary(i) == operands[i].kind = "Temporary"

TempsUpTo(i) == Cardinality({j \in 1..i : IsTemporary(j)})

(* C1: the i-th call of Temporary::New, counting only those calls from        *)
(* process start, gets identifier i: the first Temporary has id 1, ids grow   *)
(* by one per Temporary in allocation order, no two Temporaries share an id,  *)
(* and Variables and Constants built in between leave the counter alone.      *)
C1_TemporaryIdsCountCalls ==
  /\ \A i \in DOMAIN operands : IsTemporary(i) => operands[i].id_ = TempsUpTo(i)
  /\ \A i, j \in DOMAIN operands :
       (IsTemporary(i) /\ IsTemporary(j) /\ i < j) => operands[i].id_ < operands[j].id_
  /\ id = TempsUpTo(Len(operands))

C1_Witness ==
  /\ Len(operands) >= 3
  /\ IsTemporary(1) /\ ~IsTemporary(2) /\ IsTemporary(3)
  /\ operands[1].id_ = 1 /\ operands[3].id_ = 2

(* The union member an operator's shape reads *)
ArmOf(op) ==
  IF op \in JumpOps THEN "jump_des_"
  ELSE IF op \in {"DES_SS_ASSIGN", "SRC_SS_ASSIGN"} THEN "n_"
  ELSE "rhs_"

(* C2: every instruction a factory produced has the one third field its       *)
(* operator calls for: NewBinary yields exactly (op, des, lhs, rhs) as        *)
(* passed, NewDesSSAssign / NewSrcSSAssign yield DES_SS_ASSIGN /              *)
(* SRC_SS_ASSIGN with the offset as passed, the jump factories yield a jump   *)
(* target, and no instruction pairs an operator of one shape with a third     *)
(* field written as another.                                                  *)
C2_ThirdFieldMatchesOperator ==
  \A i \in DOMAIN tacs :
    /\ tacs[i].arm = ArmOf(tacs[i].op_)
    /\ tlog[i].fn = "NewBinary" =>
         /\ tacs[i].op_ = tlog[i].op /\ tacs[i].des_ = tlog[i].des
         /\ tacs[i].lhs_ = tlog[i].lhs
         /\ tacs[i].arm = "rhs_" /\ tacs[i].u = tlog[i].arg
    /\ tlog[i].fn = "NewDesSSAssign" =>
         tacs[i].op_ = "DES_SS_ASSIGN" /\ tacs[i].arm = "n_" /\ tacs[i].u = tlog[i].arg
    /\ tlog[i].fn = "NewSrcSSAssign" =>
         tacs[i].op_ = "SRC_SS_ASSIGN" /\ tacs[i].arm = "n_" /\ tacs[i].u = tlog[i].arg
    /\ tlog[i].fn \in {"NewJump", "NewIf", "NewIfFalse"} =>
         tacs[i].op_ \in JumpOps /\ tacs[i].arm = "jump_des_"

C2_Witness ==
  \E i, j, k \in DOMAIN tacs :
    /\ tlog[i].fn = "NewDesSSAssign" /\ tacs[i].u = 8
    /\ tlog[j].fn = "NewSrcSSAssign" /\ tacs[j].u = 8
    /\ tacs[i].des_ = tacs[j].des_ /\ tacs[i].lhs_ = tacs[j].lhs_
    /\ tacs[i] # tacs[j]
    /\ tlog[k].fn = "NewBinary" /\ tacs[k].op_ = "ADD" /\ tacs[k].u = TmpT

AssignFactories == {"NewAssign", "NewDesSSAssign", "NewSrcSSAssign", "NewDerefAssign"}

(* C4: the assignment factories never produce an instruction whose            *)
(* destination is a Constant: such a call dies on the shape contract and      *)
(* allocates no instruction.                                                  *)
C4_NoConstantDestination ==
  /\ \A i \in DOMAIN tacs :
       /\ tacs[i].op_ \in AssignOps => ~IsConstant(tacs[i].des_)
       /\ tlog[i].fn \in AssignFactories => ~IsConstant(tlog[i].des)
  /\ (last.call.fn \in AssignFactories /\ IsConstant(last.call.des)) =>
       (~last.ok /\ last.ret = NULL)

C4_Witness ==
  /\ last.call.fn = "NewDerefAssign" /\ IsConstant(last.call.des) /\ ~last.ok
  /\ \E i \in DOMAIN tacs : tlog[i].fn = "NewDerefAssign" /\ tacs[i].des_ = VarX

(* C5: NewJump(target) yields operator JUMP, a null destination and exactly   *)
(* the node passed as jump target; NewIf / NewIfFalse(cond, target) store     *)
(* cond as left operand and exactly target as jump target; the instruction    *)
(* reads the same in every later state.                                       *)
C5_JumpHoldsThePassedNode ==
  \A i \in DOMAIN tacs :
    /\ tlog[i].fn = "NewJump" =>
         /\ tacs[i].op_ = "JUMP" /\ tacs[i].des_ = NULL
         /\ tacs[i].arm = "jump_des_" /\ tacs[i].u = tlog[i].arg
    /\ tlog[i].fn = "NewIf" =>
         /\ tacs[i].op_ = "IF" /\ tacs[i].lhs_ = tlog[i].lhs
         /\ tacs[i].arm = "jump_des_" /\ tacs[i].u = tlog[i].arg
    /\ tlog[i].fn = "NewIfFalse" =>
         /\ tacs[i].op_ = "IF_FALSE" /\ tacs[i].lhs_ = tlog[i].lhs
         /\ tacs[i].arm = "jump_des_" /\ tacs[i].u = tlog[i].arg

C5_Witness ==
  /\ Len(tacs) = 3
  /\ tlog[1].fn = "NewLabel"
  /\ tlog[2].fn = "NewJump" /\ tacs[2].u = 1
  /\ tlog[3].fn = "NewIfFalse" /\ tacs[3].u = 1 /\ tacs[3].lhs_ = TmpT

JumpFactories == {"NewJump", "NewIf", "NewIfFalse"}

(* C6: in any sequence of factory calls the target of a JUMP / IF / IF_FALSE  *)
(* instruction is a non-null TAC node allocated strictly before the jump; a   *)
(* jump factory called without a target builds nothing.                       *)
C6_TargetExistsBeforeJump ==
  /\ \A i \in DOMAIN tacs :
       tacs[i].op_ \in JumpOps =>
         /\ tacs[i].arm = "jump_des_"
         /\ tacs[i].u # NULL
         /\ tacs[i].u \in 1..(i - 1)
  /\ (last.call.fn \in JumpFactories /\ last.call.arg = NULL) =>
       (~last.ok /\ last.ret = NULL)

C6_Witness ==
  /\ last.call.fn = "NewJump" /\ last.call.arg = NULL /\ ~last.ok
  /\ \E i \in DOMAIN tacs : tacs[i].op_ = "IF" /\ tacs[i].u = 1 /\ i = 2

(* C7: every call of Constant::Zero() returns the instance its first call     *)
(* returned, with val() = 0 and IsInteger(); every call of Constant::One()    *)
(* returns the instance its first call returned, with val() = 1; whatever     *)
(* else was constructed in between.                                           *)
C7_ZeroOneShared ==
  /\ olast.fn = "Constant::Zero" =>
       /\ olast.ret = firstZero /\ olast.ret \in DOMAIN operands
       /\ val(operands[olast.ret]) = 0 /\ IsInteger(operands[olast.ret])
  /\ olast.fn = "Constant::One" =>
       /\ olast.ret = firstOne /\ olast.ret \in DOMAIN operands
       /\ val(operands[olast.ret]) = 1
  /\ firstZero # NULL => val(operands[firstZero]) = 0
  /\ firstOne # NULL => val(operands[firstOne]) = 1
  /\ (firstZero # NULL /\ firstOne # NULL) => firstZero # firstOne

C7_Witness ==
  /\ olast.fn = "Constant::Zero" /\ olast.ret = 1
  /\ Len(operands) = 3 /\ firstOne = 3 /\ IsTemporary(2)

(* The documented classification of a source type *)
Policy(t, c) ==
  /\ c \in OperandType
  /\ t.cls = "floating" => c = "FLOAT"
  /\ (t.cls = "integer" /\ t.sign) => c = "SIGNED"
  /\ (t.cls = "integer" /\ ~t.sign) => c = "UNSIGNED"
  /\ t.cls = "pointer" => c = "UNSIGNED"
  /\ t.cls \in {"struct", "union", "array", "function"} => c = "AGGREGATE"

TypedFactories == {"Variable::New", "Constant::New", "Temporary::New"}

(* C8: ToTACOperandType maps every source type to exactly one of SIGNED,      *)
(* UNSIGNED, FLOAT, AGGREGATE: floating types to FLOAT, integral types to     *)
(* SIGNED or UNSIGNED by signedness, pointers to UNSIGNED, struct / union /   *)
(* array / function types to AGGREGATE; calls with the same type agree.       *)
C8_ClassificationPolicy ==
  /\ olast.fn = "ToTACOperandType" => Policy(olast.arg, olast.cls)
  /\ \A i \in DOMAIN operands :
       olog[i].fn \in TypedFactories => Policy(olog[i].arg, type(operands[i]))
  /\ \A i \in DOMAIN operands :
       (olast.fn = "ToTACOperandType" /\ olog[i].fn \in TypedFactories
          /\ olog[i].arg = olast.arg) => type(operands[i]) = olast.cls

C8_Witness ==
  /\ olast.fn = "ToTACOperandType" /\ olast.arg = TPtr /\ olast.cls = "UNSIGNED"
  /\ \E i, j \in DOMAIN operands :
       /\ olog[i].fn = "Temporary::New" /\ olog[i].arg = TPtr /\ IsUnsigned(operands[i])
       /\ olog[j].fn = "Temporary::New" /\ olog[j].arg = TStruct
       /\ IsAggregate(operands[j])

(* C9: NewLabel() yields operator LABEL with destination, left and right      *)
(* operand all null, being NewBinary(LABEL, null, null, null).                *)
C9_LabelIsAllNull ==
  \A i \in DOMAIN tacs :
    tlog[i].fn = "NewLabel" =>
      /\ tacs[i].op_ = "LABEL"
      /\ tacs[i].des_ = NULL /\ tacs[i].lhs_ = NULL
      /\ tacs[i].arm = "rhs_" /\ tacs[i].u = NULL

C9_Witness ==
  /\ Len(tacs) >= 2
  /\ tlog[1].fn = "NewBinary" /\ tacs[1].des_ # NULL
  /\ tlog[2].fn = "NewLabel" /\ tacs[2].op_ = "LABEL"

(* C10 as stated: with Temporary::New called from several threads, no two     *)
(* Temporaries get the same identifier.                                       *)
C10_ConcurrentIdsDistinct ==
  \A i, j \in DOMAIN operands :
    (IsTemporary(i) /\ IsTemporary(j) /\ i # j) => operands[i].id_ # operands[j].id_

(* C10 amended: as long as no execution of GenId has started between the      *)
(* load of id and the return of another, every Temporary has its own          *)
(* identifier, the i-th one built having id i.                                *)
C10_SerializedIdsDistinct ==
  ~raced =>
    /\ \A i, j \in DOMAIN operands :
         (IsTemporary(i) /\ IsTemporary(j) /\ i # j) =>
           operands[i].id_ # operands[j].id_
    /\ \A i \in DOMAIN operands : operands[i].id_ = i

C10_Witness ==
  /\ ~raced
  /\ Len(operands) = 2 /\ operands[1].id_ = 1 /\ operands[2].id_ = 2
  /\ \E t \in Threads : thr[t].pc = "load"

====
